---- MODULE Spec2Model ----
(***************************************************************************)
(* Model of the contribution-calendar renderer of src/src/index.ts         *)
(* (lines 161-447): argument handling, git histogram acquisition,          *)
(* calendar grid layout, scene construction, rasterization and the         *)
(* top-level catch.                                                         *)
(*                                                                         *)
(* Strings are sequences of one-character strings.  A Date is the number   *)
(* of whole local days since 1970-01-01 (every Date the program builds is  *)
(* a local midnight).  A JavaScript number is a record                     *)
(* [nan, int, frac]: not-a-number flag, integer part, and whether the      *)
(* fractional part is non-zero.                                            *)
(***************************************************************************)
EXTENDS Integers, Sequences, FiniteSets, TLC

(***************************************************************************)
(* Bounds of the model                                                      *)
(***************************************************************************)
\* longest hand-mixed git output, in lines
MaxLines == 2
\* largest number of commits on one day in a generated git output
MaxBulk == 17

(***************************************************************************)
(* Program constants                                                        *)
(***************************************************************************)
MinYear == 1970
MaxYear == 2100
cellSize == 12
cellGap == 3
step == cellSize + cellGap
margin == [top |-> 60, right |-> 24, bottom |-> 24, left |-> 52]
colorDomain == <<1, 4, 7, 11, 16>>
colorRange == <<"#ebedf0", "#9be9a8", "#40c463", "#30a14e", "#216e39", "#134a22">>
defaultOutPath == <<"g", "r", "a", "p", "h", ".", "p", "n", "g">>

(***************************************************************************)
(* Strings                                                                  *)
(***************************************************************************)
Digits == <<"0", "1", "2", "3", "4", "5", "6", "7", "8", "9">>

IsDigit(c) == \E i \in 1..10 : Digits[i] = c

DigitVal(c) == (CHOOSE i \in 1..10 : Digits[i] = c) - 1

\* the white space and line terminators String.prototype.trim removes
IsWhite(c) == c \in {" ", "\t", "\r", "\n"}

RECURSIVE TrimStart(_)
TrimStart(s) ==
  IF s # <<>> /\ IsWhite(Head(s)) THEN TrimStart(Tail(s)) ELSE s

RECURSIVE TrimEnd(_)
TrimEnd(s) ==
  IF s # <<>> /\ IsWhite(s[Len(s)]) THEN TrimEnd(SubSeq(s, 1, Len(s) - 1)) ELSE s

\* String.prototype.trim
Trim(s) == TrimEnd(TrimStart(s))

\* position of the k-th "\n" of s; 0 for k = 0, Len(s) + 1 past the last one
NewlineAt(s, k) ==
  LET nl == {i \in 1..Len(s) : s[i] = "\n"}
  IN IF k = 0 THEN 0
     ELSE IF k > Cardinality(nl) THEN Len(s) + 1
     ELSE CHOOSE i \in nl : Cardinality({j \in nl : j < i}) = k - 1

\* String.prototype.split(/\r?\n/): the pieces between the "\n"s, a piece
\* losing the "\r" that directly precedes the "\n" ending it
SplitLines(s) ==
  LET n == Cardinality({i \in 1..Len(s) : s[i] = "\n"})
  IN [k \in 1..(n + 1) |->
       LET from == NewlineAt(s, k - 1) + 1
           to   == NewlineAt(s, k) - 1
       IN IF to < Len(s) /\ to >= from /\ s[to] = "\r"
          THEN SubSeq(s, from, to - 1)
          ELSE SubSeq(s, from, to)]

\* decimal digits of a natural number, most significant first
RECURSIVE NatToStr(_)
NatToStr(n) ==
  IF n < 10 THEN <<Digits[n + 1]>>
  ELSE Append(NatToStr(n \div 10), Digits[(n % 10) + 1])

\* d3-time-format pad(value, "0", width)
RECURSIVE Pad(_, _)
Pad(s, w) == IF Len(s) < w THEN Pad(<<"0">> \o s, w) ELSE s

(***************************************************************************)
(* Number(yearStr) and isValidYear                                          *)
(***************************************************************************)
NaN == [nan |-> TRUE, int |-> 0, frac |-> FALSE]

RECURSIVE DigitsVal(_, _)
DigitsVal(s, acc) ==
  IF s = <<>> THEN acc ELSE DigitsVal(Tail(s), 10 * acc + DigitVal(Head(s)))

AllDigits(s) == \A i \in 1..Len(s) : IsDigit(s[i])

\* an unsigned decimal literal: digits, digits "." digits*, or "." digits+
UnsignedToNumber(s) ==
  IF s = <<>> THEN NaN
  ELSE IF \E i \in 1..Len(s) : s[i] = "."
  THEN LET p  == CHOOSE i \in 1..Len(s) : s[i] = "." /\ \A j \in 1..(i - 1) : s[j] # "."
           ip == SubSeq(s, 1, p - 1)
           fp == SubSeq(s, p + 1, Len(s))
       IN IF AllDigits(ip) /\ AllDigits(fp) /\ (ip # <<>> \/ fp # <<>>)
          THEN [nan |-> FALSE, int |-> DigitsVal(ip, 0),
                frac |-> \E i \in 1..Len(fp) : fp[i] # "0"]
          ELSE NaN
  ELSE IF AllDigits(s) THEN [nan |-> FALSE, int |-> DigitsVal(s, 0), frac |-> FALSE]
  ELSE NaN

\* Number(string) for strings over digits, ".", "+", "-", white space and
\* letters other than those of "Infinity", exponents and radix prefixes
ToNumber(str) ==
  LET s == Trim(str)
  IN IF s = <<>> THEN [nan |-> FALSE, int |-> 0, frac |-> FALSE]
     ELSE IF Head(s) = "-"
     THEN LET n == UnsignedToNumber(Tail(s))
          IN IF n.nan THEN NaN ELSE [nan |-> FALSE, int |-> 0 - n.int, frac |-> n.frac]
     ELSE IF Head(s) = "+" THEN UnsignedToNumber(Tail(s))
     ELSE UnsignedToNumber(s)

NumberIsInteger(n) == ~n.nan /\ ~n.frac

\* isValidYear without Number.isInteger
isValidYear_NoIntegerCheck(n) == ~n.nan /\ n.int >= MinYear /\ n.int <= MaxYear

isValidYear(n) == NumberIsInteger(n) /\ n.int >= MinYear /\ n.int <= MaxYear

(***************************************************************************)
(* Dates: local calendar days                                               *)
(***************************************************************************)
IsLeap(y) == (y % 4 = 0 /\ y % 100 # 0) \/ y % 400 = 0

DaysInMonth(y, m) ==
  IF m = 1 THEN (IF IsLeap(y) THEN 29 ELSE 28)
  ELSE IF m \in {3, 5, 8, 10} THEN 30 ELSE 31

LeapsBefore(y) == ((y - 1) \div 4) - ((y - 1) \div 100) + ((y - 1) \div 400)

\* days of a common year before each month
MonthOffsets == <<0, 31, 59, 90, 120, 151, 181, 212, 243, 273, 304, 334>>

DaysBeforeMonth(y, m) == MonthOffsets[m + 1] + (IF m >= 2 /\ IsLeap(y) THEN 1 ELSE 0)

\* new Date(y, m, d) for a zero-based month m in 0..11 and a day d of it
NewDate(y, m, d) ==
  365 * (y - 1970) + (LeapsBefore(y) - LeapsBefore(1970)) + DaysBeforeMonth(y, m) + d - 1

getFullYear(t) ==
  LET a == 1970 + (t \div 366)
  IN CHOOSE y \in (a - 1)..(a + 2) : NewDate(y, 0, 1) <= t /\ t < NewDate(y + 1, 0, 1)

getMonth(t) ==
  LET y   == getFullYear(t)
      doy == t - NewDate(y, 0, 1)
  IN Cardinality({m \in 0..11 : DaysBeforeMonth(y, m) <= doy}) - 1

getDate(t) == t - NewDate(getFullYear(t), getMonth(t), 1) + 1

\* 1970-01-01 was a Thursday
getDay(t) == (t + 4) % 7

timeDayFloor(t) == t

timeSundayFloor(t) == t - getDay(t)

\* a ceil that moves a date already on a Sunday to the next one
timeSundayCeil_Next(t) == timeSundayFloor(t) + 7

\* interval.ceil: floor(date - 1ms), then one interval later
timeSundayCeil(t) == timeSundayFloor(t - 1) + 7

timeMonthFloor(t) == NewDate(getFullYear(t), getMonth(t), 1)

timeMonthNext(t) == t + DaysInMonth(getFullYear(t), getMonth(t))

\* d3.timeDay.range(a, b)
timeDayRange(a, b) == [i \in 1..(IF a < b THEN b - a ELSE 0) |-> a + i - 1]

\* a range that includes its stop
timeSundayRange_Inclusive(a, b) ==
  LET s == timeSundayCeil(a)
  IN [i \in 1..(IF s <= b THEN (b - s) \div 7 + 1 ELSE 0) |-> s + 7 * (i - 1)]

\* d3.timeSunday.range(a, b)
timeSundayRange(a, b) ==
  LET s == timeSundayCeil(a)
  IN [i \in 1..(IF s < b THEN (b - s + 6) \div 7 ELSE 0) |-> s + 7 * (i - 1)]

\* d3.timeMonth.range(a, b) for a month start a
RECURSIVE timeMonthRange(_, _)
timeMonthRange(a, b) ==
  IF a < b THEN <<a>> \o timeMonthRange(timeMonthNext(a), b) ELSE <<>>

\* d3.timeSunday.count(a, b)
timeSundayCount(a, b) == (timeSundayFloor(b) - timeSundayFloor(a)) \div 7

\* d3.timeFormat('%Y-%m-%d')
FormatYmd(t) ==
  Pad(NatToStr(getFullYear(t)), 4) \o <<"-">> \o Pad(NatToStr(getMonth(t) + 1), 2)
    \o <<"-">> \o Pad(NatToStr(getDate(t)), 2)

MonthNames ==
  <<"Jan", "Feb", "Mar", "Apr", "May", "Jun", "Jul", "Aug", "Sep", "Oct", "Nov", "Dec">>

\* d3.timeFormat('%b')
FormatB(t) == MonthNames[getMonth(t) + 1]

(***************************************************************************)
(* Histogram: a Map<string, number>, kept as its entries in insertion order *)
(***************************************************************************)
MapHas(m, k) == \E i \in 1..Len(m) : m[i].key = k

\* counts.get(k) ?? 0
MapGetOr0(m, k) ==
  IF MapHas(m, k) THEN m[CHOOSE i \in 1..Len(m) : m[i].key = k].val ELSE 0

\* counts.set(k, v): an existing key keeps its place, a new one goes last
MapSet(m, k, v) ==
  IF MapHas(m, k)
  THEN [i \in 1..Len(m) |-> IF m[i].key = k THEN [key |-> k, val |-> v] ELSE m[i]]
  ELSE Append(m, [key |-> k, val |-> v])

\* the loop body without trim()
CountLine_NoTrim(counts, line) ==
  IF line = <<>> THEN counts ELSE MapSet(counts, line, MapGetOr0(counts, line) + 1)

\* one pass of the loop body over a line
CountLine(counts, line) ==
  LET date == Trim(line)
  IN IF date = <<>> THEN counts ELSE MapSet(counts, date, MapGetOr0(counts, date) + 1)

\* the loop leaving at the first blank line (break for continue)
RECURSIVE CountLines_BreakOnBlank(_, _)
CountLines_BreakOnBlank(counts, lines) ==
  IF lines = <<>> \/ Trim(Head(lines)) = <<>> THEN counts
  ELSE CountLines_BreakOnBlank(CountLine(counts, Head(lines)), Tail(lines))

\* the for loop over the lines
RECURSIVE CountLines(_, _)
CountLines(counts, lines) ==
  IF lines = <<>> THEN counts
  ELSE CountLines(CountLine(counts, Head(lines)), Tail(lines))

\* the part of parseGitContributionCounts after the subprocess returned
CountsOfOutput(out) == CountLines(<<>>, SplitLines(out))

\* the arguments handed to git
GitArgs(repoPath, y) ==
  [repoPath |-> repoPath,
   since |-> NatToStr(y) \o <<"-", "0", "1", "-", "0", "1">>,
   until |-> NatToStr(y) \o <<"-", "1", "2", "-", "3", "1">>]

(***************************************************************************)
(* Color scale and cell attributes                                          *)
(***************************************************************************)
\* a bisect that puts a count equal to a threshold below it
bisectRight_Left(dom, x) == Cardinality({i \in 1..Len(dom) : dom[i] < x})

\* d3.bisectRight on the sorted threshold domain
bisectRight(dom, x) == Cardinality({i \in 1..Len(dom) : dom[i] <= x})

\* d3.scaleThreshold().domain(colorDomain).range(colorRange)
color(c) == colorRange[bisectRight(colorDomain, c) + 1]

\* a day cell whose count is looked up whether or not it is in the year
DayDatum_Unguarded(date, counts, ys, ye) ==
  [date |-> date, count |-> MapGetOr0(counts, FormatYmd(date)),
   inYear |-> date >= ys /\ date < ye]

\* the callback of days' map
DayDatum(date, counts, ys, ye) ==
  LET inYear == date >= ys /\ date < ye
      key    == FormatYmd(date)
      count  == IF inYear THEN MapGetOr0(counts, key) ELSE 0
  IN [date |-> date, count |-> count, inYear |-> inYear]

CellRect(d, st) ==
  [x |-> timeSundayCount(st, d.date) * step,
   y |-> getDay(d.date) * step,
   fill |-> IF d.inYear THEN color(d.count) ELSE "#ffffff",
   stroke |-> IF d.inYear THEN "#e2e8f0" ELSE "none",
   strokeWidth |-> IF d.inYear THEN 1 ELSE 0]

\* the month starts without the filter
MonthStarts_Unfiltered(st, en, ys, ye) == timeMonthRange(timeMonthFloor(st), en)

MonthStarts(st, en, ys, ye) ==
  SelectSeq(timeMonthRange(timeMonthFloor(st), en), LAMBDA d : d >= ys /\ d < ye)

MonthLabel(d, st) ==
  [x |-> timeSundayCount(st, timeSundayFloor(d)) * step, text |-> FormatB(d)]

(***************************************************************************)
(* Inputs: command lines and what the repository makes git print            *)
(***************************************************************************)
RepoPaths == {<<>>, <<"/", "r">>}

OutPaths == {<<"o", ".", "p", "n", "g">>}

\* year arguments: every year from one below to one above the accepted
\* range, and strings that are not plain integers
OddYearStrs ==
  {<<>>, <<" ">>, <<"a", "b", "c">>, <<"2", "0", "2", "4", ".", "5">>,
   <<"2", "0", "2", "1", ".", "0">>, <<" ", "2", "0", "2", "2">>,
   <<"-", "2", "0", "2", "4">>, <<"2", "0", "2", "4", "a">>}

YearStrs == {NatToStr(y) : y \in (MinYear - 1)..(MaxYear + 1)} \cup OddYearStrs

\* process.argv.slice(2)
ArgLists ==
  {<<>>}
    \cup {<<r>> : r \in RepoPaths}
    \cup {<<r, y>> : r \in RepoPaths, y \in YearStrs}
    \cup {<<r, y, o>> : r \in RepoPaths, y \in OddYearStrs, o \in OutPaths}

\* years whose logs are explored in full: the first and last valid year, a
\* year starting on a Sunday, a leap year
LogYears == {MinYear, 2023, 2024, MaxYear}

\* lines a log of year y may hold: its first and last day, the first day
\* wrapped in white space, the day before the year, and a blank line
LineCandidates(y) ==
  {FormatYmd(NewDate(y, 0, 1)),
   <<" ">> \o FormatYmd(NewDate(y, 0, 1)) \o <<"\r">>,
   FormatYmd(NewDate(y, 0, 1) - 1),
   FormatYmd(NewDate(y + 1, 0, 1) - 1),
   <<" ", "\t">>}

\* git terminates every line it prints with "\n"
RECURSIVE JoinLines(_)
JoinLines(ls) ==
  IF ls = <<>> THEN <<>> ELSE Head(ls) \o <<"\n">> \o JoinLines(Tail(ls))

MixedLogs(y) ==
  UNION {[1..n -> LineCandidates(y)] : n \in 0..MaxLines}

BulkLogs(y) ==
  {[i \in 1..n |-> FormatYmd(NewDate(y, 0, 1))] : n \in (MaxLines + 1)..MaxBulk}

\* what git may print for year y: for the years of LogYears every mixed and
\* bulk log, for the others the empty log and a log of one commit
GitOutputs(y) ==
  IF y \in LogYears
  THEN {JoinLines(ls) : ls \in MixedLogs(y) \cup BulkLogs(y)}
  ELSE {<<>>, JoinLines(<<FormatYmd(NewDate(y, 0, 1))>>)}

(***************************************************************************)
(* State                                                                    *)
(***************************************************************************)
VARIABLES
  args,          \* process.argv.slice(2)
  pc,            \* position of main: "args", "acquire", "layout", "scene",
                 \* "rasterize", "rejected" (main's promise rejected), "exit"
  exitCode,      \* process.exitCode (0 while unset)
  stderr,        \* what console.error printed
  stdout,        \* what console.log printed
  gitCalls,      \* the git subprocesses started, with their arguments
  files,         \* the image files written
  stages,        \* the pipeline stages entered so far, in order
  failed,        \* the stage that threw, or "none"
  year,          \* main's year
  output,        \* standard output of the git subprocess
  countsByDate,  \* main's countsByDate
  yearStart, yearEnd, start, end,
  days, weeks, width, height,
  monthStarts, monthLabels, rects

vars ==
  <<args, pc, exitCode, stderr, stdout, gitCalls, files, stages, failed, year,
    output, countsByDate, yearStart, yearEnd, start, end, days, weeks, width,
    height, monthStarts, monthLabels, rects>>

layoutVars == <<yearStart, yearEnd, start, end, days, weeks, width, height>>

sceneVars == <<monthStarts, monthLabels, rects>>

Init ==
  /\ args \in ArgLists
  /\ pc = "args"
  /\ exitCode = 0
  /\ stderr = <<>>
  /\ stdout = <<>>
  /\ gitCalls = <<>>
  /\ files = {}
  /\ stages = <<>>
  /\ failed = "none"
  /\ year = 0
  /\ output = <<>>
  /\ countsByDate = <<>>
  /\ yearStart = 0 /\ yearEnd = 0 /\ start = 0 /\ end = 0
  /\ days = <<>> /\ weeks = <<>> /\ width = 0 /\ height = 0
  /\ monthStarts = <<>> /\ monthLabels = <<>> /\ rects = <<>>

\* a check that only notices a missing argument
Falsy_OnlyMissing(i) == Len(args) < i

\* process.argv[i + 1] is missing or the empty string
Falsy(i) == Len(args) < i \/ args[i] = <<>>

repoPath == args[1]

yearStr == args[2]

outPath == IF Len(args) >= 3 THEN args[3] ELSE defaultOutPath

usage == [text |-> "Usage:", arg |-> <<>>]

(***************************************************************************)
(* main                                                                     *)
(***************************************************************************)
\* argument check and year validation
ParseArgs ==
  /\ pc = "args"
  /\ IF Falsy(1) \/ Falsy(2)
     THEN /\ stderr' = Append(stderr, usage)
          /\ exitCode' = 1
          /\ pc' = "exit"
          /\ year' = year
     ELSE IF ~isValidYear(ToNumber(yearStr))
     THEN /\ stderr' = stderr \o <<[text |-> "Invalid year: ", arg |-> yearStr], usage>>
          /\ exitCode' = 1
          /\ pc' = "exit"
          /\ year' = year
     ELSE /\ year' = ToNumber(yearStr).int
          /\ pc' = "acquire"
          /\ UNCHANGED <<stderr, exitCode>>
  /\ UNCHANGED <<args, stdout, gitCalls, files, stages, failed, output, countsByDate>>
  /\ UNCHANGED <<layoutVars, sceneVars>>

\* parseGitContributionCounts when git exits normally
Acquire ==
  /\ pc = "acquire"
  /\ gitCalls' = Append(gitCalls, GitArgs(repoPath, year))
  /\ stages' = Append(stages, "git")
  /\ \E out \in GitOutputs(year) :
       /\ output' = out
       /\ countsByDate' = CountsOfOutput(out)
  /\ pc' = "layout"
  /\ UNCHANGED <<args, exitCode, stderr, stdout, files, failed, year>>
  /\ UNCHANGED <<layoutVars, sceneVars>>

\* parseGitContributionCounts when execFileSync throws
AcquireThrows ==
  /\ pc = "acquire"
  /\ gitCalls' = Append(gitCalls, GitArgs(repoPath, year))
  /\ stages' = Append(stages, "git")
  /\ failed' = "git"
  /\ pc' = "rejected"
  /\ UNCHANGED <<args, exitCode, stderr, stdout, files, year, output, countsByDate>>
  /\ UNCHANGED <<layoutVars, sceneVars>>

\* date range, day cells, week columns and image size
Layout ==
  /\ pc = "layout"
  /\ LET ys == timeDayFloor(NewDate(year, 0, 1))
         ye == timeDayFloor(NewDate(year + 1, 0, 1))
         st == timeSundayFloor(ys)
         en == timeSundayCeil(ye)
         dr == timeDayRange(st, en)
         wk == timeSundayRange(st, en)
     IN /\ yearStart' = ys
        /\ yearEnd' = ye
        /\ start' = st
        /\ end' = en
        /\ days' = [i \in 1..Len(dr) |-> DayDatum(dr[i], countsByDate, ys, ye)]
        /\ weeks' = wk
        /\ width' = margin.left + Len(wk) * step + margin.right
        /\ height' = margin.top + 7 * step + margin.bottom
  /\ stages' = Append(stages, "layout")
  /\ pc' = "scene"
  /\ UNCHANGED <<args, exitCode, stderr, stdout, gitCalls, files, failed, year,
                 output, countsByDate>>
  /\ UNCHANGED sceneVars

\* the SVG document: month labels and one rect per day cell
Scene ==
  /\ pc = "scene"
  /\ LET ms == MonthStarts(start, end, yearStart, yearEnd)
     IN /\ monthStarts' = ms
        /\ monthLabels' = [i \in 1..Len(ms) |-> MonthLabel(ms[i], start)]
  /\ rects' = [i \in 1..Len(days) |-> CellRect(days[i], start)]
  /\ stages' = Append(stages, "scene")
  /\ pc' = "rasterize"
  /\ UNCHANGED <<args, exitCode, stderr, stdout, gitCalls, files, failed, year,
                 output, countsByDate>>
  /\ UNCHANGED layoutVars

\* building the document throws
SceneThrows ==
  /\ pc = "scene"
  /\ stages' = Append(stages, "scene")
  /\ failed' = "scene"
  /\ pc' = "rejected"
  /\ UNCHANGED <<args, exitCode, stderr, stdout, gitCalls, files, year, output,
                 countsByDate>>
  /\ UNCHANGED <<layoutVars, sceneVars>>

\* sharp(...).toFile(outPath) resolves
Rasterize ==
  /\ pc = "rasterize"
  /\ files' = files \cup {[path |-> outPath, width |-> width, height |-> height,
                            complete |-> TRUE]}
  /\ stdout' = Append(stdout, [text |-> "Wrote ", arg |-> outPath])
  /\ stages' = Append(stages, "rasterize")
  /\ pc' = "exit"
  /\ UNCHANGED <<args, exitCode, stderr, gitCalls, failed, year, output, countsByDate>>
  /\ UNCHANGED <<layoutVars, sceneVars>>

\* sharp(...).toFile(outPath) rejects, with or without an incomplete file
\* left at outPath
RasterizeThrows ==
  /\ pc = "rasterize"
  /\ \/ files' = files
     \/ files' = files \cup {[path |-> outPath, width |-> width, height |-> height,
                               complete |-> FALSE]}
  /\ stages' = Append(stages, "rasterize")
  /\ failed' = "rasterize"
  /\ pc' = "rejected"
  /\ UNCHANGED <<args, exitCode, stderr, stdout, gitCalls, year, output, countsByDate>>
  /\ UNCHANGED <<layoutVars, sceneVars>>

\* a catch that logs and leaves the exit code alone
Catch_NoExitCode ==
  /\ pc = "rejected"
  /\ stderr' = Append(stderr, [text |-> "error", arg |-> <<>>])
  /\ pc' = "exit"
  /\ UNCHANGED <<args, exitCode, stdout, gitCalls, files, stages, failed, year, output,
                 countsByDate>>
  /\ UNCHANGED <<layoutVars, sceneVars>>

\* main().catch
Catch ==
  /\ pc = "rejected"
  /\ stderr' = Append(stderr, [text |-> "error", arg |-> <<>>])
  /\ exitCode' = 1
  /\ pc' = "exit"
  /\ UNCHANGED <<args, stdout, gitCalls, files, stages, failed, year, output,
                 countsByDate>>
  /\ UNCHANGED <<layoutVars, sceneVars>>

Next ==
  \/ ParseArgs
  \/ Acquire
  \/ AcquireThrows
  \/ Layout
  \/ Scene
  \/ SceneThrows
  \/ Rasterize
  \/ RasterizeThrows
  \/ Catch

Spec == Init /\ [][Next]_vars

(***************************************************************************)
(* Properties                                                               *)
(***************************************************************************)
Entered(stage) == \E i \in 1..Len(stages) : stages[i] = stage

LaidOut == Entered("layout")

Drawn == Entered("scene") /\ failed # "scene"

\* C1: for every target year the grid starts on the Sunday on or before
\* Jan 1 of the year, less than 7 days before it, ends (exclusive) on the
\* Sunday on or after Jan 1 of the next year, less than 7 days after it, and
\* the day cells are the days of [start, end), a multiple of 7 of them.
C1_GridWholeWeeks ==
  LaidOut =>
    /\ year \in MinYear..MaxYear
    /\ getFullYear(yearStart) = year /\ getMonth(yearStart) = 0 /\ getDate(yearStart) = 1
    /\ getFullYear(yearEnd) = year + 1 /\ getMonth(yearEnd) = 0 /\ getDate(yearEnd) = 1
    /\ getDay(start) = 0 /\ start <= yearStart /\ yearStart - start < 7
    /\ getDay(end) = 0 /\ end >= yearEnd /\ end - yearEnd < 7
    /\ Len(days) = end - start
    /\ \A i \in 1..Len(days) : days[i].date = start + i - 1
    /\ Len(days) % 7 = 0

\* a grid whose next year starts on a Sunday, so that end is that very day
C1_Witness ==
  LaidOut /\ year = 2022 /\ end = yearEnd /\ start < yearStart /\ Len(days) = 371

\* C2: a day cell is in the year exactly when yearStart <= date < yearEnd,
\* and a cell outside the year has count 0 whatever the histogram holds for
\* its date.
C2_InYearAndZeroOutside ==
  LaidOut =>
    \A i \in 1..Len(days) :
      /\ days[i].inYear <=> (yearStart <= days[i].date /\ days[i].date < yearEnd)
      /\ ~days[i].inYear => days[i].count = 0

\* a cell outside the year whose date is a key of the histogram
C2_Witness ==
  /\ LaidOut
  /\ \E i \in 1..Len(days) :
       /\ ~days[i].inYear
       /\ MapHas(countsByDate, FormatYmd(days[i].date))
       /\ days[i].count = 0

\* the palette entry the bands 0, 1..3, 4..6, 7..10, 11..15, 16.. name
BandColor(c) ==
  IF c = 0 THEN "#ebedf0"
  ELSE IF c <= 3 THEN "#9be9a8"
  ELSE IF c <= 6 THEN "#40c463"
  ELSE IF c <= 10 THEN "#30a14e"
  ELSE IF c <= 15 THEN "#216e39"
  ELSE "#134a22"

PaletteIndex(col) == CHOOSE k \in 1..Len(colorRange) : colorRange[k] = col

\* C3: an in-year cell is filled with the palette entry of its count's band
\* (0; 1..3; 4..6; 7..10; 11..15; 16 and more), darker never going with
\* fewer commits, and a cell outside the year is filled with #ffffff.
C3_ColorBands ==
  Drawn =>
    /\ Len(rects) = Len(days)
    /\ \A i \in 1..Len(rects) :
         rects[i].fill = IF days[i].inYear THEN BandColor(days[i].count) ELSE "#ffffff"
    /\ LET used == {<<days[i].count, rects[i].fill>> :
                      i \in {j \in 1..Len(days) : days[j].inYear}}
       IN \A a \in used, b \in used :
            a[1] <= b[1] => PaletteIndex(a[2]) <= PaletteIndex(b[2])

\* a drawing with a cell of 16 commits in the darkest color, an empty in-year
\* cell in the lightest and a blank cell outside the year
C3_Witness ==
  /\ Drawn
  /\ \E i \in 1..Len(rects) : days[i].count = 16 /\ rects[i].fill = "#134a22"
  /\ \E i \in 1..Len(rects) :
       days[i].inYear /\ days[i].count = 0 /\ rects[i].fill = "#ebedf0"
  /\ \E i \in 1..Len(rects) : ~days[i].inYear /\ rects[i].fill = "#ffffff"

\* the string is a decimal integer of MinYear..MaxYear, possibly signed "+",
\* followed by "." and zeros, or wrapped in white space
DenotesValidYear(str) ==
  \E y \in MinYear..MaxYear :
    \E sign \in {<<>>, <<"+">>} :
      \E k \in 0..Len(str) :
        Trim(str) \in {sign \o NatToStr(y),
                       sign \o NatToStr(y) \o <<".">> \o [i \in 1..k |-> "0"]}

\* argument i is absent or the empty string
ArgMissing(i) == Len(args) < i \/ args[i] = <<>>

YearArgValid == Len(args) >= 2 /\ DenotesValidYear(args[2])

UsagePrinted == \E i \in 1..Len(stderr) : stderr[i] = usage

RejectedCleanly ==
  /\ pc = "exit"
  /\ UsagePrinted
  /\ exitCode = 1
  /\ gitCalls = <<>>
  /\ files = {}

ReachedAcquisition == pc = "acquire" \/ Entered("git")

\* C4 as stated: a run whose year argument is no integer of 1970..2100 prints
\* the usage text, sets exit code 1 and never starts git or writes a file; a
\* run whose year argument is one passes validation and goes on to histogram
\* acquisition.
C4_AsStated ==
  pc # "args" =>
    /\ ~YearArgValid => RejectedCleanly
    /\ YearArgValid => ReachedAcquisition /\ ~UsagePrinted

\* C4, amended: as stated, the second half for runs whose repoPath is present
\* and not empty.
C4_YearValidation ==
  pc # "args" =>
    /\ ~YearArgValid => RejectedCleanly
    /\ (YearArgValid /\ ~ArgMissing(1)) => ReachedAcquisition /\ ~UsagePrinted

\* a run with a repoPath rejected for the year 2024.5
C4_Witness ==
  /\ pc = "exit"
  /\ ~ArgMissing(1)
  /\ Len(args) >= 2 /\ args[2] = <<"2", "0", "2", "4", ".", "5">>
  /\ stderr = <<[text |-> "Invalid year: ", arg |-> args[2]], usage>>
  /\ exitCode = 1

\* C5: a run in which repoPath or year is missing or empty ends with exit
\* code 1 after printing the usage text, never starts git and writes no file.
C5_MissingArguments ==
  (ArgMissing(1) \/ ArgMissing(2)) =>
    /\ gitCalls = <<>>
    /\ files = {}
    /\ pc \in {"args", "exit"}
    /\ pc = "exit" => stderr = <<usage>> /\ exitCode = 1 /\ stages = <<>>

\* a finished run that was given an empty repoPath and a valid year
C5_Witness ==
  /\ pc = "exit"
  /\ Len(args) >= 2 /\ args[1] = <<>> /\ args[2] = NatToStr(2024)
  /\ exitCode = 1

\* C6: once a stage has failed no later stage runs, no stage is ever run
\* twice, and the run is rejected and ends with exit code 1 without a
\* complete output file; after a failed git invocation there is no histogram,
\* no grid and no output file at all.
C6_FailureIsFatal ==
  /\ \A i \in 1..Len(stages), j \in 1..Len(stages) : stages[i] = stages[j] => i = j
  /\ Len(gitCalls) <= 1
  /\ failed # "none" =>
       /\ stages # <<>> /\ stages[Len(stages)] = failed
       /\ pc \in {"rejected", "exit"}
       /\ pc = "exit" => exitCode = 1
       /\ stdout = <<>>
       /\ \A f \in files : ~f.complete
  /\ failed \in {"git", "scene"} => files = {}
  /\ failed = "git" =>
       /\ countsByDate = <<>> /\ output = <<>>
       /\ days = <<>> /\ rects = <<>>

\* a run that ended after git failed
C6_Witness == failed = "git" /\ pc = "exit" /\ exitCode = 1 /\ Len(gitCalls) = 1

\* a Map as the mapping it holds
AsMapping(m) == {<<m[i].key, m[i].val>> : i \in 1..Len(m)}

Permuted(ls, f) == [i \in 1..Len(ls) |-> ls[f[i]]]

Exchanges(n) ==
  {[k \in 1..n |-> IF k = i THEN j ELSE IF k = j THEN i ELSE k] : i \in 1..n, j \in 1..n}

\* C7: the histogram of the lines of a log equals, as a mapping, the
\* histogram of the same lines in any other order (every permutation of a
\* log of at most MaxLines + 1 lines, every exchange of two lines of a
\* longer one).
C7_OrderIndependent ==
  (Entered("git") /\ failed # "git") =>
    LET lines == SplitLines(output)
        n     == Len(lines)
        perms == IF n <= MaxLines + 1 THEN Permutations(1..n) ELSE Exchanges(n)
    IN \A f \in perms :
         AsMapping(CountLines(<<>>, Permuted(lines, f))) = AsMapping(countsByDate)

\* a histogram of two dates, the later of them met first
C7_Witness ==
  /\ Entered("git") /\ failed # "git"
  /\ Len(countsByDate) = 2
  /\ countsByDate[1].key = FormatYmd(NewDate(year + 1, 0, 1) - 1)
  /\ countsByDate[2].key = FormatYmd(NewDate(year, 0, 1))

RECURSIVE SumVals(_)
SumVals(m) == IF m = <<>> THEN 0 ELSE Head(m).val + SumVals(Tail(m))

\* C8: the count of an in-year day cell is the number of lines of the git
\* output whose trimmed text is the day's date as YYYY-MM-DD, and the counts
\* of the histogram add up to the number of lines that are not blank.
C8_CountsMatchLines ==
  LaidOut =>
    LET lines   == SplitLines(output)
        trimmed == [k \in 1..Len(lines) |-> Trim(lines[k])]
    IN /\ \A i \in 1..Len(days) :
            days[i].inYear =>
              LET text == FormatYmd(days[i].date)
              IN days[i].count = Cardinality({k \in 1..Len(trimmed) : trimmed[k] = text})
       /\ SumVals(countsByDate) = Cardinality({k \in 1..Len(trimmed) : trimmed[k] # <<>>})

\* the first day of 2024 counted twice, once from a line that began with a
\* blank and ended in "\r\n"
C8_Witness ==
  /\ LaidOut /\ year = 2024
  /\ \E i \in 1..Len(days) :
       /\ days[i].date = NewDate(2024, 0, 1) /\ days[i].count = 2
  /\ \E k \in 1..Len(SplitLines(output)) :
       SplitLines(output)[k] = <<" ">> \o FormatYmd(NewDate(2024, 0, 1))
  /\ Len(countsByDate) = 1

\* C9: with W the number of week starts, the day cells number 7 * W, the
\* i-th of them lies in column (i - 1) \div 7 and row (i - 1) % 7, so that
\* the cells fill {0..W-1} x {0..6} one to one, and the image is as wide as
\* W columns and the margins.
C9_GridBijection ==
  Drawn =>
    LET W   == Len(weeks)
        col(i) == rects[i].x \div step
        row(i) == rects[i].y \div step
    IN /\ Len(rects) = 7 * W
       /\ \A i \in 1..Len(rects) :
            /\ rects[i].x = col(i) * step /\ rects[i].y = row(i) * step
            /\ col(i) = (i - 1) \div 7 /\ row(i) = (i - 1) % 7
       /\ {<<col(i), row(i)>> : i \in 1..Len(rects)} = (0..(W - 1)) \X (0..6)
       /\ Cardinality({<<col(i), row(i)>> : i \in 1..Len(rects)}) = Len(rects)
       /\ width = margin.left + W * step + margin.right

\* a drawn grid of 54 week columns
C9_Witness ==
  Drawn /\ Len(weeks) = 54 /\ rects[Len(rects)].x = 53 * step /\ rects[Len(rects)].y = 6 * step

\* C10: the month labels are those of Jan 1 .. Dec 1 of the target year, in
\* this order, each at the column of the day cell of its date, the columns
\* strictly increasing.
C10_MonthLabels ==
  Drawn =>
    /\ Len(monthStarts) = 12 /\ Len(monthLabels) = 12
    /\ \A m \in 1..Len(monthStarts) :
         /\ getFullYear(monthStarts[m]) = year
         /\ getMonth(monthStarts[m]) = m - 1
         /\ getDate(monthStarts[m]) = 1
         /\ monthLabels[m].text = MonthNames[m]
         /\ \E i \in 1..Len(days) :
              days[i].date = monthStarts[m] /\ rects[i].x = monthLabels[m].x
    /\ \A m \in 1..(Len(monthLabels) - 1) : monthLabels[m].x < monthLabels[m + 1].x

\* labels of a year whose grid begins in December of the year before
C10_Witness ==
  /\ Drawn
  /\ start < yearStart /\ yearEnd < end
  /\ Len(monthLabels) = 12
  /\ monthLabels[1].x = 0 /\ monthLabels[12].text = "Dec"

====
